---- MODULE Spec2Model ----
(***************************************************************************)
(* EcoScan backend (backend.py): the upload-and-classify request handler   *)
(* upload_image, with the local upload directory and the remote classifier *)
(* as its environment.                                                     *)
(*                                                                         *)
(* Text is modelled as a sequence of one-character strings wherever the    *)
(* code looks inside it (labels, file names), and as a sequence of opaque  *)
(* fragments where the code only concatenates it (error details).  An      *)
(* optional value (Python None or a value) is the empty sequence or a      *)
(* one-element sequence.                                                   *)
(***************************************************************************)
EXTENDS Integers, Sequences, FiniteSets, TLC

\* ------------------------------------------------------------------ bounds
\* Number of requests handled concurrently.
NReq == 2
\* Longest upload body, in bytes, of the single-request specification.
MaxLen == 2

Requests == 1..NReq
Byte == {0, 1}

None == <<>>
Some(x) == <<x>>

\* ------------------------------------------------------------ static config
UPLOAD_DIR == <<"u", "p", "l", "o", "a", "d", "s">>

PARTNER_MAP ==
    "Recyclable" :> [name |-> "TerraCycle", contact |-> "terracycle@example.org"] @@
    "Biodegradable" :> [name |-> "Hasiru Dala", contact |-> "hasiru@example.org"] @@
    "Non-Recyclable" :> [name |-> "Municipal Waste", contact |-> "waste@example.org"] @@
    "Hazardous" :> [name |-> "Attero Recycling", contact |-> "attero@example.org"]

CATEGORY_MAP ==
    <<"c", "a", "r", "d", "b", "o", "a", "r", "d">> :> "Recyclable" @@
    <<"p", "a", "p", "e", "r">> :> "Recyclable" @@
    <<"p", "l", "a", "s", "t", "i", "c">> :> "Recyclable" @@
    <<"g", "l", "a", "s", "s">> :> "Recyclable" @@
    <<"m", "e", "t", "a", "l">> :> "Recyclable" @@
    <<"t", "r", "a", "s", "h">> :> "Non-Recyclable" @@
    <<"s", "h", "o", "e", "s">> :> "Non-Recyclable" @@
    <<"b", "i", "o", "l", "o", "g", "i", "c", "a", "l">> :> "Biodegradable" @@
    <<"o", "r", "g", "a", "n", "i", "c">> :> "Biodegradable" @@
    <<"f", "o", "o", "d">> :> "Biodegradable" @@
    <<"h", "a", "z", "a", "r", "d", "o", "u", "s">> :> "Hazardous"

ADVICE_MAP ==
    "Recyclable" :> "Rinse and dry before recycling. Flatten boxes to save space." @@
    "Biodegradable" :> "Compost if possible, otherwise dispose in organic waste bin." @@
    "Non-Recyclable" :> "Dispose in general waste. Avoid mixing with recyclables." @@
    "Hazardous" :> "Handle with care. Dispose through authorized collection centers."

\* The fallbacks of the three .get calls.
UnknownCategory == "Unknown"
UnknownPartner == [name |-> "Unknown", contact |-> "N/A"]
NoAdvice == "No advice available for this category."

\* ------------------------------------------------------------- str.lower()
UpperChars ==
    <<"A", "B", "C", "D", "E", "F", "G", "H", "I", "J", "K", "L", "M",
      "N", "O", "P", "Q", "R", "S", "T", "U", "V", "W", "X", "Y", "Z">>
LowerChars ==
    <<"a", "b", "c", "d", "e", "f", "g", "h", "i", "j", "k", "l", "m",
      "n", "o", "p", "q", "r", "s", "t", "u", "v", "w", "x", "y", "z">>

LowerChar(c) ==
    IF \E i \in 1..Len(UpperChars) : UpperChars[i] = c
    THEN LowerChars[CHOOSE i \in 1..Len(UpperChars) : UpperChars[i] = c]
    ELSE c

Lower(s) == [i \in 1..Len(s) |-> LowerChar(s[i])]

\* ------------------------------------------------------- os.path.splitext
\* str.rfind: the last index of character c in p, 0 when there is none.
RFind(p, c) ==
    IF \E i \in 1..Len(p) : p[i] = c
    THEN CHOOSE i \in 1..Len(p) : p[i] = c /\ \A j \in (i + 1)..Len(p) : p[j] # c
    ELSE 0

\* The extension os.path.splitext(p)[1]: the text from the last dot on, when
\* that dot follows the last separator and some character between the two is
\* not a dot (leading dots of the base name start no extension).
SplitExt(p) ==
    LET sepIndex == RFind(p, "/")
        dotIndex == RFind(p, ".")
    IN  IF /\ dotIndex > sepIndex
           /\ \E k \in (sepIndex + 1)..(dotIndex - 1) : p[k] # "."
        THEN SubSeq(p, dotIndex, Len(p))
        ELSE <<>>

DefaultExt == <<".", "j", "p", "g">>

\* ext = os.path.splitext(file.filename)[1] or ".jpg"
Ext(name) == IF SplitExt(name) # <<>> THEN SplitExt(name) ELSE DefaultExt

\* ------------------------------------------------------------ uuid.uuid4()
\* One token per identifier; the n-th call of the process returns the n-th
\* token, so no two calls return the same one (collisions are impossible).
UUIDS == <<"uuid-1", "uuid-2", "uuid-3", "uuid-4", "uuid-5", "uuid-6">>

\* A generator that hands out the same identifier on every call.
Uuid4Fixed(n) == UUIDS[1]

Uuid4(n) == UUIDS[n + 1]

\* filename = f"{uuid.uuid4()}{ext}"
Filename(original, n) == <<Uuid4(n)>> \o Ext(original)

\* file_path = os.path.join(UPLOAD_DIR, filename)
FilePath(filename) == UPLOAD_DIR \o <<"/">> \o filename

\* --------------------------------------------------------------- storage
\* open(path, "wb"): the file exists and is empty afterwards.
OpenWb(files, path) ==
    [p \in DOMAIN files \cup {path} |-> IF p = path THEN <<>> ELSE files[p]]

\* write(data) through a handle at offset 0: the first Len(data) bytes are
\* replaced, anything the file holds beyond them stays.
WriteAt0(files, path, data) ==
    [files EXCEPT ![path] = data \o SubSeq(@, Len(data) + 1, Len(@))]

\* ------------------------------------------------------------- exceptions
Exc(type, str) == [type |-> type, str |-> str]

\* HTTPException(status_code=500, detail=...); its str() is "500: <detail>".
HTTPException(detail) == Exc("HTTPException", <<"500: ">> \o detail)

OpenError == Exc("OSError", <<"[Errno 13] Permission denied">>)
WriteError == Exc("OSError", <<"[Errno 28] No space left on device">>)
ReadError == Exc("OSError", <<"[Errno 5] Input/output error">>)
JSONDecodeError == Exc("JSONDecodeError", <<"Expecting value: line 1 column 1 (char 0)">>)
NetErrors ==
    { Exc("ConnectError", <<"All connection attempts failed">>),
      Exc("ReadTimeout", <<"The read operation timed out">>) }

\* A handler whose failures surface as the framework's bare 500.
ErrorResponseBare(e) == [status_code |-> 500, detail |-> <<"Internal Server Error">>]

\* except Exception as e: raise HTTPException(500, f"Error processing image: {e}")
ErrorResponse(e) ==
    [status_code |-> 500, detail |-> <<"Error processing image: ">> \o e.str]

\* ---------------------------------------------------- response handling
\* A check that lets every upstream status through.
StatusOkAny(status_code) == TRUE

\* not (response.status_code != 200)
StatusOk(status_code) == status_code = 200

\* Truth value of a number that may be None.
TruthyNum(v) == v # None /\ v[1] # 0

\* Truth value of a string that may be None.
TruthyStr(v) == v # None /\ v[1] # <<>>

\* ml_result.get("confidence")
\*     or ml_result.get("probabilities", {}).get(predicted_class, None)
Confidence(ml_result) ==
    IF TruthyNum(ml_result.confidence)
    THEN ml_result.confidence
    ELSE IF /\ ml_result.probabilities # None
            /\ ml_result.prediction # None
            /\ ml_result.prediction[1] \in DOMAIN ml_result.probabilities[1]
         THEN Some(ml_result.probabilities[1][ml_result.prediction[1]])
         ELSE None

\* CATEGORY_MAP.get(predicted_class.lower(), "Unknown")
Category(predicted_class) ==
    IF Lower(predicted_class) \in DOMAIN CATEGORY_MAP
    THEN CATEGORY_MAP[Lower(predicted_class)]
    ELSE UnknownCategory

\* A lookup that sends every unmapped category to the municipal service.
PartnerDefaultMunicipal(category) ==
    IF category \in DOMAIN PARTNER_MAP
    THEN PARTNER_MAP[category]
    ELSE PARTNER_MAP["Non-Recyclable"]

\* PARTNER_MAP.get(category, {"name": "Unknown", "contact": "N/A"})
Partner(category) ==
    IF category \in DOMAIN PARTNER_MAP THEN PARTNER_MAP[category] ELSE UnknownPartner

\* ADVICE_MAP.get(category, "No advice available for this category.")
Advice(category) ==
    IF category \in DOMAIN ADVICE_MAP THEN ADVICE_MAP[category] ELSE NoAdvice

Return(v) == [kind |-> "return", value |-> v]
Raise(e) == [kind |-> "raise", exc |-> e]

\* Lines 88-114: what the handler does with the classifier's response.
HandleResponse(filename, response) ==
    IF ~StatusOk(response.status_code)
    THEN Raise(HTTPException(<<"ML service failed: ", response.text>>))
    ELSE IF response.json = None
    THEN Raise(JSONDecodeError)
    ELSE LET ml_result == response.json[1]
             predicted_class == ml_result.prediction
             confidence == Confidence(ml_result)
         IN  IF ~TruthyStr(predicted_class)
             THEN Raise(HTTPException(<<"Missing prediction from ML service">>))
             ELSE LET category == Category(predicted_class[1])
                  IN  Return([filename |-> filename,
                              predicted_class |-> predicted_class[1],
                              confidence |-> confidence,
                              category |-> category,
                              partner |-> Partner(category),
                              advice |-> Advice(category)])

\* ------------------------------------------------------------- environment
\* Multipart uploads: file name, declared content type, bytes.
Upload(filename, content_type, content) ==
    [filename |-> filename, content_type |-> content_type, content |-> content]

FileNames ==
    { <<"a", ".", "p", "n", "g">>,
      <<"p", "h", "o", "t", "o">>,
      <<".", "b", "a", "s", "h", "r", "c">>,
      <<"a", ".", "t", "a", "r", ".", "g", "z">>,
      <<"x", ".">>,
      <<"d", ".", "x", "/", "f">>,
      <<>> }

ContentTypes == {"image/png", "image/jpeg"}

BytesUpTo(n) == UNION { [1..k -> Byte] : k \in 0..n }

AllUploads ==
    { Upload(f, t, c) : f \in FileNames, t \in ContentTypes, c \in BytesUpTo(MaxLen) }

FewUploads ==
    { Upload(<<"a", ".", "p", "n", "g">>, "image/png", <<1>>),
      Upload(<<"p", "h", "o", "t", "o">>, "image/png", <<0, 1>>),
      Upload(<<".", "b", "a", "s", "h", "r", "c">>, "image/jpeg", <<1>>),
      Upload(<<"a", ".", "t", "a", "r", ".", "g", "z">>, "image/jpeg", <<0, 1>>) }

\* Labels the classifier may answer with.
plastic == <<"p", "l", "a", "s", "t", "i", "c">>
Labels ==
    { plastic,
      <<"P", "l", "a", "s", "t", "i", "c">>,
      <<"t", "r", "a", "s", "h">>,
      <<"H", "a", "z", "a", "r", "d", "o", "u", "s">>,
      <<"F", "O", "O", "D">>,
      <<"u", "n", "k", "n", "o", "w", "n", "l", "a", "b", "e", "l">>,
      <<"R", "e", "c", "y", "c", "l", "a", "b", "l", "e">>,
      <<>> }

\* Confidence values in hundredths (91 stands for 0.91).
Confidences == {0, 30, 91}

ProbabilityMaps ==
    { plastic :> 30 @@ <<"t", "r", "a", "s", "h">> :> 0,
      <<"u", "n", "k", "n", "o", "w", "n", "l", "a", "b", "e", "l">> :> 55 }

Opt(S) == {None} \cup { Some(x) : x \in S }

\* The JSON objects of the shape {prediction?, confidence?, probabilities?}.
JsonObjects ==
    [prediction : Opt(Labels), confidence : Opt(Confidences),
     probabilities : Opt(ProbabilityMaps)]

\* An HTTP response of the classifier: status, raw body text, and what
\* response.json() gives for that body (None: the body is not JSON).
Response(status_code, text, json) ==
    [status_code |-> status_code, text |-> text, json |-> json]

AllAnswers ==
    { Response(s, t, None) : s \in {404, 503}, t \in {"Service Unavailable", ""} }
    \cup { Response(503, "{...}", Some(o)) :
             o \in { j \in JsonObjects : j.prediction = Some(plastic) /\ j.probabilities = None } }
    \cup { Response(200, "<html>", None) }
    \cup { Response(200, "{...}", Some(o)) : o \in JsonObjects }

FewAnswers ==
    { Response(503, "Service Unavailable", None),
      Response(200, "{...}",
               Some([prediction |-> Some(plastic), confidence |-> Some(91),
                     probabilities |-> None])),
      Response(200, "{...}",
               Some([prediction |-> Some(<<"u", "n", "k", "n", "o", "w", "n", "l", "a", "b", "e", "l">>),
                     confidence |-> None, probabilities |-> None])) }

\* ------------------------------------------------------------------- state
VARIABLES
    pc,        \* where each request's handler stands (lines 66-120)
    upload,    \* the UploadFile each request received, line 66 (None before it arrives)
    filename,  \* the handler's local `filename`, line 73
    content,   \* the handler's local `content`, lines 77 and 82
    fs,        \* the upload directory of line 13: path -> bytes
    uuids,     \* how many identifiers uuid4 (line 73) has handed out
    outbox,    \* per request, the multipart `file` fields posted to the classifier
    answer,    \* per request, the classifier's response (None before it arrives)
    exc,       \* per request, the exception caught at line 116 (None if none)
    resp,      \* per request, the responses sent to the caller
    steps      \* per request, the storage and network steps it has run

vars == <<pc, upload, filename, content, fs, uuids, outbox, answer, exc, resp, steps>>

Init ==
    /\ pc = [r \in Requests |-> "idle"]
    /\ upload = [r \in Requests |-> None]
    /\ filename = [r \in Requests |-> <<>>]
    /\ content = [r \in Requests |-> <<>>]
    /\ fs = <<>>
    /\ uuids = 0
    /\ outbox = [r \in Requests |-> <<>>]
    /\ answer = [r \in Requests |-> None]
    /\ exc = [r \in Requests |-> None]
    /\ resp = [r \in Requests |-> <<>>]
    /\ steps = [r \in Requests |-> <<>>]

\* Lines 116-120: the exception ends the request in the handler's 500.
Caught(r, e, step) ==
    /\ pc' = [pc EXCEPT ![r] = "done"]
    /\ exc' = [exc EXCEPT ![r] = Some(e)]
    /\ resp' = [resp EXCEPT ![r] = Append(@, ErrorResponse(e))]
    /\ steps' = [steps EXCEPT ![r] = Append(@, step)]

Goes(r, to, step) ==
    /\ pc' = [pc EXCEPT ![r] = to]
    /\ steps' = [steps EXCEPT ![r] = Append(@, step)]
    /\ UNCHANGED <<exc, resp>>

\* Lines 66-76: the request arrives, the name is generated, the file is
\* opened for writing (created empty) or the open fails.
Start(r, Uploads) ==
    /\ pc[r] = "idle"
    /\ \E u \in Uploads :
         /\ upload' = [upload EXCEPT ![r] = Some(u)]
         /\ filename' = [filename EXCEPT ![r] = Filename(u.filename, uuids)]
         /\ uuids' = uuids + 1
         /\ \/ /\ fs' = OpenWb(fs, FilePath(Filename(u.filename, uuids)))
               /\ Goes(r, "opened", "open_wb")
            \/ /\ fs' = fs
               /\ Caught(r, OpenError, "open_wb_failed")
    /\ UNCHANGED <<content, outbox, answer>>

\* Lines 77-78: the upload is read and written out in full.
Write(r) ==
    /\ pc[r] = "opened"
    /\ content' = [content EXCEPT ![r] = upload[r][1].content]
    /\ fs' = WriteAt0(fs, FilePath(filename[r]), upload[r][1].content)
    /\ Goes(r, "written", "write")
    /\ UNCHANGED <<upload, filename, uuids, outbox, answer>>

\* A write whose error is swallowed: the handler goes on with what was written.
WriteFailsSwallowed(r) ==
    /\ pc[r] = "opened"
    /\ content' = [content EXCEPT ![r] = upload[r][1].content]
    /\ \E k \in 0..Len(upload[r][1].content) :
         fs' = WriteAt0(fs, FilePath(filename[r]), SubSeq(upload[r][1].content, 1, k))
    /\ Goes(r, "written", "write_failed")
    /\ UNCHANGED <<upload, filename, uuids, outbox, answer>>

\* Lines 77-78 failing: the write (or the flush on close) raises after k bytes
\* reached the file; the file stays as it is.
WriteFails(r) ==
    /\ pc[r] = "opened"
    /\ content' = [content EXCEPT ![r] = upload[r][1].content]
    /\ \E k \in 0..Len(upload[r][1].content) :
         fs' = WriteAt0(fs, FilePath(filename[r]), SubSeq(upload[r][1].content, 1, k))
    /\ Caught(r, WriteError, "write_failed")
    /\ UNCHANGED <<upload, filename, uuids, outbox, answer>>

\* Lines 81-82: the file is opened again and read back.
ReadBack(r) ==
    /\ pc[r] = "written"
    /\ content' = [content EXCEPT ![r] = fs[FilePath(filename[r])]]
    /\ Goes(r, "read", "read")
    /\ UNCHANGED <<upload, filename, fs, uuids, outbox, answer>>

\* Lines 81-82 failing.
ReadFails(r) ==
    /\ pc[r] = "written"
    /\ Caught(r, ReadError, "read_failed")
    /\ UNCHANGED <<upload, filename, content, fs, uuids, outbox, answer>>

\* A multipart field that drops the declared content type.
MultipartUntyped(name, data, content_type) ==
    [filename |-> name, content |-> data, content_type |-> "application/octet-stream"]

\* files = {"file": (filename, content, file.content_type)}
Multipart(name, data, content_type) ==
    [filename |-> name, content |-> data, content_type |-> content_type]

\* Lines 83-86: the multipart POST goes out; the handler waits for the answer.
Post(r) ==
    /\ pc[r] = "read"
    /\ outbox' = [outbox EXCEPT ![r] =
                    Append(@, Multipart(filename[r], content[r], upload[r][1].content_type))]
    /\ Goes(r, "posted", "post")
    /\ UNCHANGED <<upload, filename, content, fs, uuids, answer>>

\* Line 86 failing: no connection, or no answer within the timeout.
NetFails(r) ==
    /\ pc[r] = "posted"
    /\ \E e \in NetErrors : Caught(r, e, "post_failed")
    /\ UNCHANGED <<upload, filename, content, fs, uuids, outbox, answer>>

\* Lines 86-120: the classifier answers and the handler finishes.
Answer(r, Answers) ==
    /\ pc[r] = "posted"
    /\ \E a \in Answers :
         /\ answer' = [answer EXCEPT ![r] = Some(a)]
         /\ LET out == HandleResponse(filename[r], a)
            IN  IF out.kind = "return"
                THEN /\ pc' = [pc EXCEPT ![r] = "done"]
                     /\ resp' = [resp EXCEPT ![r] =
                                   Append(@, [status_code |-> 200, body |-> out.value])]
                     /\ steps' = [steps EXCEPT ![r] = Append(@, "answered")]
                     /\ exc' = exc
                ELSE Caught(r, out.exc, "answered")
    /\ UNCHANGED <<upload, filename, content, fs, uuids, outbox>>

upload_image(r, Uploads, Answers) ==
    \/ Start(r, Uploads)
    \/ Write(r)
    \/ WriteFails(r)
    \/ ReadBack(r)
    \/ ReadFails(r)
    \/ Post(r)
    \/ NetFails(r)
    \/ Answer(r, Answers)

\* Concurrent requests over a small set of uploads and answers.
Next == \E r \in Requests : upload_image(r, FewUploads, FewAnswers)

Spec == Init /\ [][Next]_vars

\* One request over every upload and every answer of the model.
NextOne == upload_image(1, AllUploads, AllAnswers)

SpecOne == Init /\ [][NextOne]_vars

\* ------------------------------------------------------------------ claims
Answered(r) == answer[r] # None
TheAnswer(r) == answer[r][1]
TheUpload(r) == upload[r][1]
Responded(r) == Len(resp[r]) = 1
Is200(r) == Responded(r) /\ resp[r][1].status_code = 200
Is500(r) == Responded(r) /\ resp[r][1].status_code = 500
Body(r) == resp[r][1].body
Detail(r) == resp[r][1].detail
Mentions(detail, fragment) == \E i \in 1..Len(detail) : detail[i] = fragment
Ran(r, step) == \E i \in 1..Len(steps[r]) : steps[r][i] = step

\* The classifier answered 200 with a JSON object carrying a non-empty label.
Labelled(r) ==
    /\ Answered(r)
    /\ TheAnswer(r).status_code = 200
    /\ TheAnswer(r).json # None
    /\ TheAnswer(r).json[1].prediction # None
    /\ TheAnswer(r).json[1].prediction[1] # <<>>
TheJson(r) == TheAnswer(r).json[1]
TheLabel(r) == TheJson(r).prediction[1]

\* C1: whenever the classifier answers 200 with a non-empty label L and a
\* confidence c, the endpoint answers 200 with predicted_class L as received,
\* confidence c, and the category CATEGORY_MAP holds for L lower-cased.
C1_EchoesLabelConfidenceCategory ==
    \A r \in Requests :
        (Labelled(r) /\ TheJson(r).confidence # None) =>
            /\ Is200(r)
            /\ Body(r).predicted_class = TheLabel(r)
            /\ Body(r).confidence = TheJson(r).confidence
            /\ Lower(TheLabel(r)) \in DOMAIN CATEGORY_MAP =>
                   Body(r).category = CATEGORY_MAP[Lower(TheLabel(r))]

\* C2: whenever the classifier answers with a status other than 200, the
\* endpoint answers 500 (and never 200), and the detail mentions the upstream
\* failure and carries the remote body.
C2_UpstreamFailureIs500 ==
    \A r \in Requests :
        (Answered(r) /\ TheAnswer(r).status_code # 200) =>
            /\ Is500(r)
            /\ \E i \in 1..(Len(Detail(r)) - 1) :
                   /\ Detail(r)[i] = "ML service failed: "
                   /\ Detail(r)[i + 1] = TheAnswer(r).text

C2_Witness ==
    \E r \in Requests :
        /\ Answered(r)
        /\ TheAnswer(r).status_code = 503
        /\ TheAnswer(r).text = "Service Unavailable"
        /\ Is500(r)

\* C3: a non-empty label with no entry in the category table does not fail
\* the request: the endpoint answers 200 and partner is the fallback sentinel
\* {"name": "Unknown", "contact": "N/A"}.
C3_UnknownLabelFallsBack ==
    \A r \in Requests :
        (Labelled(r) /\ Lower(TheLabel(r)) \notin DOMAIN CATEGORY_MAP) =>
            /\ Is200(r)
            /\ Body(r).partner = [name |-> "Unknown", contact |-> "N/A"]

C3_Witness ==
    \E r \in Requests :
        /\ Labelled(r)
        /\ TheLabel(r) = <<"u", "n", "k", "n", "o", "w", "n", "l", "a", "b", "e", "l">>
        /\ Is200(r)

\* C4: the bytes every request forwards to the classifier are the bytes of
\* its own upload, whatever the other requests write and read meanwhile.
C4_ForwardedBytesAreUploaded ==
    \A r \in Requests :
        \A i \in 1..Len(outbox[r]) : outbox[r][i].content = TheUpload(r).content

C4_Witness ==
    \E r1, r2 \in Requests :
        /\ r1 # r2
        /\ Len(outbox[r1]) = 1
        /\ Len(outbox[r2]) = 1
        /\ TheUpload(r1).content # TheUpload(r2).content
        /\ Ext(TheUpload(r1).filename) = Ext(TheUpload(r2).filename)

\* The original name has an extension: a dot of its base name that follows a
\* character other than a dot, with neither dot nor separator after it.
LastDot(name, i) ==
    /\ name[i] = "."
    /\ \A j \in (i + 1)..Len(name) : name[j] \notin {".", "/"}
    /\ \E k \in 1..(i - 1) :
           /\ name[k] # "."
           /\ \A j \in k..i : name[j] # "/"

\* C5: every generated filename is <uuid><ext>, ext being the extension of
\* the original name or ".jpg" when it has none; no two requests share a
\* filename, and every stored file is the file of exactly one request.
C5_FilenamesWellFormedAndUnique ==
    /\ \A r \in Requests :
           upload[r] # None =>
               LET orig == TheUpload(r).filename
                   ext == SubSeq(filename[r], 2, Len(filename[r]))
               IN  /\ \E n \in 1..Len(UUIDS) : filename[r][1] = UUIDS[n]
                   /\ \A i \in 1..Len(orig) :
                          LastDot(orig, i) => ext = SubSeq(orig, i, Len(orig))
                   /\ (\A i \in 1..Len(orig) : ~LastDot(orig, i)) =>
                          ext = <<".", "j", "p", "g">>
    /\ \A r1, r2 \in Requests :
           (r1 # r2 /\ upload[r1] # None /\ upload[r2] # None) =>
               filename[r1] # filename[r2]
    /\ \A p \in DOMAIN fs :
           Cardinality({ r \in Requests :
                           upload[r] # None /\ FilePath(filename[r]) = p }) = 1

C5_Witness ==
    \E r1, r2 \in Requests :
        /\ r1 # r2
        /\ pc[r1] = "written"
        /\ pc[r2] = "written"
        /\ TheUpload(r1).filename = <<"p", "h", "o", "t", "o">>
        /\ TheUpload(r2).filename = <<"a", ".", "t", "a", "r", ".", "g", "z">>

\* C6: two submissions of the same upload that get the same answer from the
\* classifier and succeed carry distinct filenames and the same
\* predicted_class, category, partner and advice.
C6_ResubmissionSameFieldsNewName ==
    \A r1, r2 \in Requests :
        (/\ r1 # r2
         /\ upload[r1] # None /\ upload[r1] = upload[r2]
         /\ Answered(r1) /\ answer[r1] = answer[r2]) =>
            /\ resp[r1][1].status_code = resp[r2][1].status_code
            /\ Is200(r1) =>
                   /\ Body(r1).filename # Body(r2).filename
                   /\ Body(r1).predicted_class = Body(r2).predicted_class
                   /\ Body(r1).category = Body(r2).category
                   /\ Body(r1).partner = Body(r2).partner
                   /\ Body(r1).advice = Body(r2).advice

C6_Witness ==
    \E r1, r2 \in Requests :
        /\ r1 # r2
        /\ upload[r1] # None /\ upload[r1] = upload[r2]
        /\ Answered(r1) /\ answer[r1] = answer[r2]
        /\ Is200(r1) /\ Is200(r2)

ResponseKeys == {"filename", "predicted_class", "confidence", "category", "partner", "advice"}

\* C7: a request has no response until it is done and exactly one then: a
\* 200 with all six fields (only after a 200 answer with a label), or a 500
\* with a detail; a storage failure, a network failure, a body that is not
\* JSON and a body without label each end in the 500 whose detail carries the
\* error's own message; at most one POST goes out per request.
C7_OneResponseFailuresAre500 ==
    \A r \in Requests :
        /\ Len(outbox[r]) <= 1
        /\ Len(resp[r]) = (IF pc[r] = "done" THEN 1 ELSE 0)
        /\ Responded(r) =>
               \/ /\ Is200(r)
                  /\ DOMAIN Body(r) = ResponseKeys
                  /\ Labelled(r)
                  /\ exc[r] = None
               \/ /\ Is500(r)
                  /\ DOMAIN resp[r][1] = {"status_code", "detail"}
                  /\ Len(Detail(r)) > 0
        /\ (Ran(r, "open_wb_failed") \/ Ran(r, "write_failed") \/ Ran(r, "read_failed")) =>
               /\ Is500(r)
               /\ \E m \in {"[Errno 13] Permission denied",
                            "[Errno 28] No space left on device",
                            "[Errno 5] Input/output error"} : Mentions(Detail(r), m)
        /\ Ran(r, "post_failed") =>
               /\ Is500(r)
               /\ \E m \in {"All connection attempts failed",
                            "The read operation timed out"} : Mentions(Detail(r), m)
        /\ (Answered(r) /\ TheAnswer(r).status_code = 200 /\ TheAnswer(r).json = None) =>
               /\ Is500(r)
               /\ Mentions(Detail(r), "Expecting value: line 1 column 1 (char 0)")
        /\ (/\ Answered(r) /\ TheAnswer(r).status_code = 200
            /\ TheAnswer(r).json # None /\ TheJson(r).prediction = None) =>
               /\ Is500(r)
               /\ Mentions(Detail(r), "Missing prediction from ML service")

C7_Witness ==
    \E r \in Requests :
        /\ Answered(r)
        /\ TheAnswer(r).status_code = 200
        /\ TheAnswer(r).json # None
        /\ TheJson(r).prediction = None
        /\ TheJson(r).confidence = Some(91)
        /\ Is500(r)

\* C8 as stated: the posted `file` field carries the bytes, the filename and
\* the content type received from the caller.
C8_PostCarriesCallersFile ==
    \A r \in Requests :
        \A i \in 1..Len(outbox[r]) :
            /\ outbox[r][i].content = TheUpload(r).content
            /\ outbox[r][i].filename = TheUpload(r).filename
            /\ outbox[r][i].content_type = TheUpload(r).content_type

\* C8 as amended: the posted `file` field carries the bytes and the content
\* type received from the caller, under the generated storage name
\* <uuid><ext>, which is never the caller's filename.
C8_PostCarriesBytesTypeAndStoredName ==
    \A r \in Requests :
        \A i \in 1..Len(outbox[r]) :
            /\ outbox[r][i].content = TheUpload(r).content
            /\ outbox[r][i].content_type = TheUpload(r).content_type
            /\ outbox[r][i].filename = filename[r]
            /\ outbox[r][i].filename # TheUpload(r).filename
            /\ \E n \in 1..Len(UUIDS) : outbox[r][i].filename[1] = UUIDS[n]

C8_Witness ==
    \E r \in Requests :
        /\ Len(outbox[r]) = 1
        /\ TheUpload(r).content_type = "image/jpeg"
        /\ TheUpload(r).content = <<0, 1>>
        /\ TheUpload(r).filename = <<"a", ".", "p", "n", "g">>

\* C9: in a 200 response confidence is the body's `confidence` whenever that
\* field is present, zero included; otherwise the `probabilities` entry of
\* the predicted label; and null when neither is there.
C9_ConfidenceFieldWins ==
    \A r \in Requests :
        (Labelled(r) /\ Is200(r)) =>
            IF TheJson(r).confidence # None
            THEN Body(r).confidence = TheJson(r).confidence
            ELSE IF /\ TheJson(r).probabilities # None
                    /\ TheLabel(r) \in DOMAIN TheJson(r).probabilities[1]
                 THEN Body(r).confidence = Some(TheJson(r).probabilities[1][TheLabel(r)])
                 ELSE Body(r).confidence = None

StepRank(step) ==
    CASE step = "open_wb" -> 1
      [] step = "open_wb_failed" -> 1
      [] step = "write" -> 2
      [] step = "write_failed" -> 2
      [] step = "read" -> 3
      [] step = "read_failed" -> 3
      [] step = "post" -> 4
      [] step = "post_failed" -> 5
      [] step = "answered" -> 5

\* The steps of a request so far: each one follows its predecessor in
\* the order open, write, re-read, POST, and the POST finds the whole upload
\* in the file; after a failed write nothing is read and nothing is posted.
StepsInOrder(r) ==
    /\ \A i \in 1..Len(steps[r]) : StepRank(steps[r][i]) = i
    /\ Ran(r, "post") =>
           /\ Ran(r, "write") /\ Ran(r, "read")
           /\ fs[FilePath(filename[r])] = TheUpload(r).content
    /\ Ran(r, "write_failed") =>
           /\ ~Ran(r, "read") /\ ~Ran(r, "post")
           /\ outbox[r] = <<>>
           /\ pc[r] = "done"

\* C10 as stated: write, re-read and POST run in that order, a failed write
\* stops the request before the re-read and the POST, and leaves no partially
\* written file.
C10_OrderedAndNoPartialFile ==
    \A r \in Requests :
        /\ StepsInOrder(r)
        /\ Ran(r, "write_failed") =>
               \/ FilePath(filename[r]) \notin DOMAIN fs
               \/ fs[FilePath(filename[r])] = TheUpload(r).content

\* C10 as amended: write, re-read and POST run in that order and a failed
\* write stops the request before the re-read and the POST; the file it
\* leaves holds a leading part of the upload, possibly not all of it.
C10_OrderedAndFailedWriteStops ==
    \A r \in Requests :
        /\ StepsInOrder(r)
        /\ Ran(r, "write_failed") =>
               /\ FilePath(filename[r]) \in DOMAIN fs
               /\ \E k \in 0..Len(TheUpload(r).content) :
                      fs[FilePath(filename[r])] = SubSeq(TheUpload(r).content, 1, k)

C10_Witness ==
    \E r1, r2 \in Requests :
        /\ Ran(r1, "write_failed")
        /\ fs[FilePath(filename[r1])] = <<0>>
        /\ TheUpload(r1).content = <<0, 1>>
        /\ Ran(r2, "post")
====
